---- MODULE Spec2Model ----
(***************************************************************************)
(* European population analysis (src/main.py): the schema-resolution,      *)
(* filtering, aggregation, ranking and growth pipeline of DataProcessor    *)
(* and DataAnalyzer, as a state machine over one working table.            *)
(*                                                                         *)
(* A table (pandas DataFrame) is [cols |-> set of column names,            *)
(* rows |-> sequence of rows], a row a function from the column names to   *)
(* values.  Entity values are strings, time and population values are      *)
(* integers.  The input tables carry no missing values.  Floating-point    *)
(* results (mean, growth rate) are kept as exact reduced fractions, with   *)
(* the two IEEE outcomes of a division by zero, NaN and +/-inf, as kinds   *)
(* of their own.                                                           *)
(*                                                                         *)
(* Frames are objects.  Every operation yields, beside what it returns,    *)
(* self: the contents, after the call, of the frame it was called on; an   *)
(* operation of the processor also yields data, the frame self.data is     *)
(* bound to afterwards, and fresh, whether that is a newly made frame.     *)
(***************************************************************************)
EXTENDS Integers, Sequences, FiniteSets, TLC

VARIABLES
    raw,    \* the caller's table, handed to DataProcessor(data)
    data,   \* DataProcessor.data: the processor's working table
    last,   \* the last operation called: its name, arguments and input table
    out,    \* what the last operation returned
    diag,   \* what the last operation printed (the diagnostics channel)
    shared  \* whether DataProcessor.data is the very frame the caller holds

vars == <<raw, data, last, out, diag, shared>>

(***************************************************************************)
(* Bounds of the model.                                                    *)
(***************************************************************************)
MaxRows == 2      \* rows of an input table
MaxCols == 3      \* columns of a column set handed to the resolvers

(***************************************************************************)
(* Python values.                                                          *)
(***************************************************************************)
None == "None"          \* a column lookup that found nothing
Absent == <<>>          \* an optional integer argument left at None
Given(k) == <<k>>       \* an optional integer argument that was passed

\* Python truthiness of an optional integer: None and 0 are both falsy.
Truthy(arg) == arg # Absent /\ arg[1] # 0

(***************************************************************************)
(* SchemaResolver: the candidate-name lists and the first-match loops.     *)
(***************************************************************************)
CountryCandidates == <<"geo", "country", "Country", "GEO", "Country Name">>
ValueCandidates == <<"OBS_VALUE", "value", "population", "Population", "Value">>
YearCandidates == <<"TIME_PERIOD", "time", "year", "Year">>
\* the list filter_european_countries scans itself
FilterCountryCandidates == <<"geo", "country", "Country", "GEO">>

\* for col in cands: if col in columns: return col / return None
RECURSIVE FirstPresent(_, _)
FirstPresent(cands, columns) ==
    IF cands = <<>> THEN None
    ELSE IF Head(cands) \in columns THEN Head(cands)
    ELSE FirstPresent(Tail(cands), columns)

\* a faulty variant: the first two candidates looked up in the opposite order
_get_country_column_swapped(T) ==
    FirstPresent(<<"country", "geo", "Country", "GEO", "Country Name">>, T.cols)

_get_country_column(T) == FirstPresent(CountryCandidates, T.cols)

_get_value_column(T) == FirstPresent(ValueCandidates, T.cols)

\* the year-column loop of filter_by_year and calculate_growth_rate
year_col(T) == FirstPresent(YearCandidates, T.cols)

\* the country-column loop of filter_european_countries
filter_country_col(T) == FirstPresent(FilterCountryCandidates, T.cols)

(***************************************************************************)
(* Sequence helpers.                                                       *)
(***************************************************************************)
Min(a, b) == IF a <= b THEN a ELSE b

Range(s) == {s[i] : i \in 1..Len(s)}

\* all sequences over S of length at most n
BoundedSeq(S, n) == UNION {[1..k -> S] : k \in 0..n}

(***************************************************************************)
(* DataProcessor.                                                          *)
(***************************************************************************)
european_countries ==
    {"Austria", "Belgium", "Bulgaria", "Croatia", "Cyprus",
     "Czechia", "Denmark", "Estonia", "Finland", "France",
     "Germany", "Greece", "Hungary", "Ireland", "Italy",
     "Latvia", "Lithuania", "Luxembourg", "Malta", "Netherlands",
     "Poland", "Portugal", "Romania", "Slovakia", "Slovenia",
     "Spain", "Sweden", "United Kingdom", "Norway", "Switzerland"}

\* DataFrame.drop_duplicates(): the first occurrence of every row is kept
drop_duplicates(T) ==
    LET s == T.rows
        F[i \in 0..Len(s)] ==
            IF i = 0 THEN <<>>
            ELSE IF \E j \in 1..(i - 1) : s[j] = s[i] THEN F[i - 1]
            ELSE Append(F[i - 1], s[i])
    IN  [T EXCEPT !.rows = F[Len(s)]]

\* DataFrame.dropna(): rows with a missing field are removed
\* (a missing field is a column outside the row's domain)
dropna(T) ==
    [T EXCEPT !.rows = SelectSeq(T.rows, LAMBDA r : DOMAIN r = T.cols)]

\* clean_data: the new working table and the lines printed
clean_data(T) ==
    LET cleaned == dropna(drop_duplicates(T))
    IN  [data |-> cleaned, self |-> T, fresh |-> TRUE,
         ret |-> cleaned,
         diag |-> <<"=== Data Cleaning ===", "Removed rows", "Final dataset size">>]

\* a faulty variant: the year filter applied to the caller's table, not to
\* the working table
filter_by_year_of_raw(T, start_year, end_year) ==
    LET yc == year_col(raw)
        d1 == IF Truthy(start_year)
              THEN [raw EXCEPT !.rows =
                        SelectSeq(raw.rows, LAMBDA r : r[yc] >= start_year[1])]
              ELSE raw
        d2 == IF Truthy(end_year)
              THEN [d1 EXCEPT !.rows =
                        SelectSeq(d1.rows, LAMBDA r : r[yc] <= end_year[1])]
              ELSE d1
    IN  IF yc = None
        THEN [data |-> T, self |-> T, fresh |-> FALSE,
              ret |-> T, diag |-> <<"No year column found">>]
        ELSE [data |-> d2, self |-> T,
              fresh |-> Truthy(start_year) \/ Truthy(end_year),
              ret |-> d2, diag |-> <<"Filtered data by year">>]

\* filter_by_year: the new working table and the lines printed
filter_by_year(T, start_year, end_year) ==
    LET yc == year_col(T)
        d1 == IF Truthy(start_year)
              THEN [T EXCEPT !.rows =
                        SelectSeq(T.rows, LAMBDA r : r[yc] >= start_year[1])]
              ELSE T
        d2 == IF Truthy(end_year)
              THEN [d1 EXCEPT !.rows =
                        SelectSeq(d1.rows, LAMBDA r : r[yc] <= end_year[1])]
              ELSE d1
    IN  IF yc = None
        THEN [data |-> T, self |-> T, fresh |-> FALSE,
              ret |-> T, diag |-> <<"No year column found">>]
        ELSE [data |-> d2, self |-> T,
              fresh |-> Truthy(start_year) \/ Truthy(end_year),
              ret |-> d2, diag |-> <<"Filtered data by year">>]

\* filter_european_countries: the new working table and the lines printed
filter_european_countries(T) ==
    LET cc == filter_country_col(T)
        d == [T EXCEPT !.rows =
                  SelectSeq(T.rows, LAMBDA r : r[cc] \in european_countries)]
    IN  IF cc # None
        THEN [data |-> d, self |-> T, fresh |-> TRUE,
              ret |-> d, diag |-> <<"Filtered European countries">>]
        ELSE [data |-> T, self |-> T, fresh |-> FALSE, ret |-> T, diag |-> <<>>]

\* the list main() filters by: 'Czech Republic' where the method's list has
\* 'Czechia'
main_european_countries ==
    {"Austria", "Belgium", "Bulgaria", "Croatia", "Cyprus",
     "Czech Republic", "Denmark", "Estonia", "Finland", "France",
     "Germany", "Greece", "Hungary", "Ireland", "Italy",
     "Latvia", "Lithuania", "Luxembourg", "Malta", "Netherlands",
     "Poland", "Portugal", "Romania", "Slovakia", "Slovenia",
     "Spain", "Sweden", "United Kingdom", "Norway", "Switzerland"}

\* main(), after filter_by_year: with a column 'Country Name',
\* processor.data is rebound to its rows of the European countries; nothing
\* is printed
main_filter_country_name(T) ==
    LET d == [cols |-> T.cols,
              rows |-> SelectSeq(T.rows,
                          LAMBDA r : r["Country Name"] \in main_european_countries)]
    IN  IF "Country Name" \in T.cols
        THEN [data |-> d, self |-> T, fresh |-> TRUE, diag |-> <<>>]
        ELSE [data |-> T, self |-> T, fresh |-> FALSE, diag |-> <<>>]

(***************************************************************************)
(* Floating-point results: an exact reduced fraction, NaN, or +/-inf.      *)
(***************************************************************************)
RECURSIVE GCD(_, _)
GCD(a, b) == IF b = 0 THEN a ELSE GCD(b, a % b)

Abs(a) == IF a < 0 THEN -a ELSE a

NaN == [kind |-> "nan", num |-> 0, den |-> 0]
Inf(sign) == [kind |-> "inf", num |-> sign, den |-> 0]

\* the finite number n/d, d # 0
Frac(n, d) ==
    LET g == GCD(Abs(n), Abs(d))
        s == IF d < 0 THEN -1 ELSE 1
    IN  [kind |-> "num", num |-> (s * n) \div g, den |-> (s * d) \div g]

\* a / b on two integer columns: x/0 is +/-inf, 0/0 is NaN
FDiv(a, b) ==
    IF b # 0 THEN Frac(a, b)
    ELSE IF a = 0 THEN NaN
    ELSE IF a > 0 THEN Inf(1) ELSE Inf(-1)

\* x - 1
FSub1(x) == IF x.kind = "num" THEN Frac(x.num - x.den, x.den) ELSE x

\* x * 100
FMul100(x) == IF x.kind = "num" THEN Frac(100 * x.num, x.den) ELSE x

(***************************************************************************)
(* Ordering of the entity strings (Python compares them by code point).    *)
(***************************************************************************)
StrRank ==
    ("Brazil" :> 1) @@ ("Czech Republic" :> 2) @@ ("Czechia" :> 3)
        @@ ("France" :> 4) @@ ("Germany" :> 5)

StrLess(a, b) == StrRank[a] < StrRank[b]

\* a stable argsort and take: key[i] is the pair of integers row i is
\* ordered by; every row is placed after the rows not greater than it
StableSort(s, key) ==
    LET Less(i, j) ==
            \/ key[i][1] < key[j][1]
            \/ key[i][1] = key[j][1] /\ key[i][2] < key[j][2]
        Ins(acc, i) ==
            LET k == Cardinality({p \in 1..Len(acc) : ~Less(i, acc[p])})
            IN  SubSeq(acc, 1, k) \o <<i>> \o SubSeq(acc, k + 1, Len(acc))
        F[n \in 0..Len(s)] == IF n = 0 THEN <<>> ELSE Ins(F[n - 1], n)
        order == F[Len(s)]
    IN  [p \in 1..Len(s) |-> s[order[p]]]

\* the group keys in ascending order (groupby sorts its keys)
RECURSIVE SortedKeys(_)
SortedKeys(S) ==
    IF S = {} THEN <<>>
    ELSE LET m == CHOOSE x \in S : \A y \in S : ~StrLess(y, x)
         IN  <<m>> \o SortedKeys(S \ {m})

RECURSIVE SeqSum(_)
SeqSum(s) == IF s = <<>> THEN 0 ELSE Head(s) + SeqSum(Tail(s))

RECURSIVE SeqMin(_)
SeqMin(s) ==
    IF Len(s) = 1 THEN s[1]
    ELSE LET m == SeqMin(Tail(s)) IN IF Head(s) <= m THEN Head(s) ELSE m

RECURSIVE SeqMax(_)
SeqMax(s) ==
    IF Len(s) = 1 THEN s[1]
    ELSE LET m == SeqMax(Tail(s)) IN IF Head(s) >= m THEN Head(s) ELSE m

\* a faulty variant: the values of column vc in all rows, the grouping
\* forgotten
GroupValues_ungrouped(T, cc, vc, key) ==
    [i \in 1..Len(T.rows) |-> T.rows[i][vc]]

\* the values of column vc in the rows of one group
GroupValues(T, cc, vc, key) ==
    LET g == SelectSeq(T.rows, LAMBDA r : r[cc] = key)
    IN  [i \in 1..Len(g) |-> g[i][vc]]

\* Series.mean(): sum / count
mean(s) == FDiv(SeqSum(s), Len(s))

\* aggregate_by_country: what it returns and prints
aggregate_by_country(T) ==
    LET cc == _get_country_column(T)
        vc == _get_value_column(T)
        keys == SortedKeys({r[cc] : r \in Range(T.rows)})
        agg == [cols |-> {"Country", "Average", "Minimum", "Maximum", "Total"},
                rows |-> [i \in 1..Len(keys) |->
                    LET v == GroupValues(T, cc, vc, keys[i])
                    IN  [Country |-> keys[i], Average |-> mean(v),
                         Minimum |-> SeqMin(v), Maximum |-> SeqMax(v),
                         Total |-> SeqSum(v)]]]
    IN  IF cc # None /\ vc # None
        THEN [data |-> T, self |-> T, fresh |-> FALSE, ret |-> agg, diag |-> <<>>]
        ELSE [data |-> T, self |-> T, fresh |-> FALSE, ret |-> T, diag |-> <<>>]

(***************************************************************************)
(* DataAnalyzer.                                                           *)
(***************************************************************************)
\* a faulty variant: DataFrame.head(n), the first n rows, unsorted
nlargest_head(T, n, col) ==
    IF n <= 0 THEN [T EXCEPT !.rows = <<>>]
    ELSE [T EXCEPT !.rows = SubSeq(T.rows, 1, Min(n, Len(T.rows)))]

\* DataFrame.nlargest(n, col), keep='first': the n rows of greatest col, in
\* descending order, rows of equal value in their original order; no row
\* for n <= 0
nlargest(T, n, col) ==
    LET sorted == StableSort(T.rows,
                             [i \in 1..Len(T.rows) |-> <<-T.rows[i][col], 0>>])
    IN  IF n <= 0 THEN [T EXCEPT !.rows = <<>>]
        ELSE [T EXCEPT !.rows = SubSeq(sorted, 1, Min(n, Len(sorted)))]

\* DataFrame[[c1, c2]]: the projection on two columns
project(T, c1, c2) ==
    [cols |-> {c1, c2},
     rows |-> [i \in 1..Len(T.rows) |-> [c \in {c1, c2} |-> T.rows[i][c]]]]

NoneDF == [cols |-> {}, rows |-> <<>>]

\* find_top_countries: what it returns (kind "None" for None) and prints
find_top_countries(T, n) ==
    LET cc == _get_country_column(T)
        vc == _get_value_column(T)
    IN  IF cc # None /\ vc # None
        THEN [kind |-> "DataFrame", ret |-> project(nlargest(T, n, vc), cc, vc),
              self |-> T, diag |-> <<>>]
        ELSE [kind |-> "None", ret |-> NoneDF, self |-> T, diag |-> <<>>]

\* DataFrame.sort_values([c1, c2]): stable, ascending, first by c1 then c2
sort_values(T, c1, c2) ==
    [T EXCEPT !.rows =
        StableSort(T.rows,
                   [i \in 1..Len(T.rows) |->
                       <<StrRank[T.rows[i][c1]], T.rows[i][c2]>>])]

\* a faulty variant: Series.pct_change() without the groupby, the previous
\* row whatever its entity
pct_change_ungrouped(s, cc, vc) ==
    [i \in 1..Len(s) |->
        IF i = 1 THEN NaN ELSE FSub1(FDiv(s[i][vc], s[i - 1][vc]))]

\* groupby(cc)[vc].pct_change(): value / previous value of the group - 1,
\* NaN on the first row of a group
pct_change(s, cc, vc) ==
    [i \in 1..Len(s) |->
        LET before == {j \in 1..(i - 1) : s[j][cc] = s[i][cc]}
            p == CHOOSE j \in before : \A k \in before : k <= j
        IN  IF before = {} THEN NaN
            ELSE FSub1(FDiv(s[i][vc], s[p][vc]))]

\* a faulty variant: the sort and the new column applied to the analyzer's
\* own frame
calculate_growth_rate_inplace(T) ==
    LET cc == _get_country_column(T)
        vc == _get_value_column(T)
        yc == year_col(T)
        sorted_data == sort_values(T, cc, yc)
        pct == pct_change(sorted_data.rows, cc, vc)
        grown == [cols |-> T.cols \cup {"growth_rate"},
                  rows |-> [i \in 1..Len(pct) |->
                      [c \in T.cols \cup {"growth_rate"} |->
                          IF c = "growth_rate" THEN FMul100(pct[i])
                          ELSE sorted_data.rows[i][c]]]]
    IN  IF cc # None /\ vc # None /\ yc # None
        THEN [ret |-> grown, self |-> grown, diag |-> <<>>]
        ELSE [ret |-> T, self |-> T, diag |-> <<>>]

\* calculate_growth_rate: what it returns and prints
calculate_growth_rate(T) ==
    LET cc == _get_country_column(T)
        vc == _get_value_column(T)
        yc == year_col(T)
        sorted_data == sort_values(T, cc, yc)
        pct == pct_change(sorted_data.rows, cc, vc)
        grown == [cols |-> T.cols \cup {"growth_rate"},
                  rows |-> [i \in 1..Len(pct) |->
                      [c \in T.cols \cup {"growth_rate"} |->
                          IF c = "growth_rate" THEN FMul100(pct[i])
                          ELSE sorted_data.rows[i][c]]]]
    IN  IF cc # None /\ vc # None /\ yc # None
        THEN [ret |-> grown, self |-> T, diag |-> <<>>]
        ELSE [ret |-> T, self |-> T, diag |-> <<>>]

\* the columns select_dtypes(include=[np.number]) keeps: the time and the
\* value columns carry numbers, every other column strings
numeric_cols(T) == T.cols \cap (Range(YearCandidates) \cup Range(ValueCandidates))

\* Series.median(): the middle value, or the mean of the two middle values
median(s) ==
    LET n == Len(s)
        sorted == StableSort(s, [i \in 1..n |-> <<s[i], 0>>])
    IN  IF n = 0 THEN NaN
        ELSE IF n % 2 = 1 THEN Frac(sorted[(n + 1) \div 2], 1)
        ELSE Frac(sorted[n \div 2] + sorted[(n \div 2) + 1], 2)

\* the square root of a fraction, kept symbolic
FSqrt(x) ==
    IF x.kind = "num" THEN [kind |-> "sqrt", num |-> x.num, den |-> x.den] ELSE x

\* Series.std(): the sample standard deviation (ddof = 1), NaN for fewer
\* than two values
std(s) ==
    LET n == Len(s)
        sq == [i \in 1..n |-> s[i] * s[i]]
    IN  IF n <= 1 THEN NaN
        ELSE FSqrt(Frac((n * SeqSum(sq)) - (SeqSum(s) * SeqSum(s)), n * (n - 1)))

\* Series.min() and Series.max(): NaN for no value
series_min(s) == IF s = <<>> THEN NaN ELSE Frac(SeqMin(s), 1)

series_max(s) == IF s = <<>> THEN NaN ELSE Frac(SeqMax(s), 1)

\* calculate_statistics: the dict it returns, one entry per numeric column
calculate_statistics(T) ==
    LET col(c) == [i \in 1..Len(T.rows) |-> T.rows[i][c]]
        stats == [c \in numeric_cols(T) |->
                     [mean |-> mean(col(c)), median |-> median(col(c)),
                      std |-> std(col(c)), min |-> series_min(col(c)),
                      max |-> series_max(col(c))]]
    IN  [ret |-> stats, self |-> T, diag |-> <<>>]

(***************************************************************************)
(* The input tables.                                                       *)
(***************************************************************************)
Entities == {"Brazil", "France"}     \* France is European, Brazil is not
Times == {1999, 2000}
Values == {0, 1}

\* the row of a schema that carries entity e, time t and value v (a column
\* of no role carries a string)
Row(S, e, t, v) ==
    [c \in S |-> IF c \in Range(YearCandidates) THEN t
                 ELSE IF c \in Range(ValueCandidates) THEN v
                 ELSE e]

RowsOver(S) == {Row(S, e, t, v) : e \in Entities, t \in Times, v \in Values}

\* the column sets of the tables that carry rows
Schemas ==
    {{"Country Name", "Year", "Value"},      \* the dataset main() loads
     {"geo", "TIME_PERIOD", "OBS_VALUE"},    \* a Eurostat extract
     {"Year", "Value"},                      \* no entity column
     {"geo", "OBS_VALUE"},                   \* no time column
     {"geo", "TIME_PERIOD"}}                 \* no value column

\* the tables of one to MaxRows rows over these column sets
RowTables ==
    UNION {{[cols |-> S, rows |-> rs] :
                rs \in BoundedSeq(RowsOver(S), MaxRows) \ {<<>>}} :
           S \in Schemas}

TwoCandidateCols ==
    {"Country Name", "GEO", "Year", "TIME_PERIOD", "Value", "OBS_VALUE"}

TwoCandidateRow(cn, g, y, tp, v, ov) ==
    [c \in TwoCandidateCols |->
        CASE c = "Country Name" -> cn
          [] c = "GEO" -> g
          [] c = "Year" -> y
          [] c = "TIME_PERIOD" -> tp
          [] c = "Value" -> v
          [] OTHER -> ov]

\* the tables of the worked examples: Germany/France over two years, an
\* entity with the values 100, 150, 75 out of time order around another
\* entity, three entities of one row each, and a table in which two
\* candidates of every role are present with different contents; and the
\* two names of one country, of which each allow-list has one
ScenarioTables ==
    {[cols |-> {"geo", "time", "value"},
      rows |-> <<[geo |-> "Germany", time |-> 2000, value |-> 100],
                 [geo |-> "Germany", time |-> 2001, value |-> 110],
                 [geo |-> "France", time |-> 2000, value |-> 50]>>],
     [cols |-> {"Country", "year", "population"},
      rows |-> <<[Country |-> "France", year |-> 2002, population |-> 75],
                 [Country |-> "Germany", year |-> 2001, population |-> 7],
                 [Country |-> "France", year |-> 2000, population |-> 100],
                 [Country |-> "France", year |-> 2001, population |-> 150]>>],
     [cols |-> {"country", "Year", "Population"},
      rows |-> <<[country |-> "France", Year |-> 2020, Population |-> 67],
                 [country |-> "Brazil", Year |-> 2020, Population |-> 212],
                 [country |-> "Germany", Year |-> 2020, Population |-> 83]>>],
     [cols |-> TwoCandidateCols,
      rows |-> <<TwoCandidateRow("France", "Brazil", 1, 0, 5, 0),
                 TwoCandidateRow("Brazil", "France", 0, 1, 0, 3),
                 TwoCandidateRow("Brazil", "France", 1, 0, 2, 4)>>],
     [cols |-> {"Country Name", "Year", "Value"},
      rows |-> <<Row({"Country Name", "Year", "Value"}, "Czechia", 2000, 1),
                 Row({"Country Name", "Year", "Value"}, "Czech Republic", 2000, 2),
                 Row({"Country Name", "Year", "Value"}, "Brazil", 2001, 1),
                 Row({"Country Name", "Year", "Value"}, "France", 1999, 2)>>],
     [cols |-> {"geo", "TIME_PERIOD", "OBS_VALUE"},
      rows |-> <<Row({"geo", "TIME_PERIOD", "OBS_VALUE"}, "Czechia", 2000, 1),
                 Row({"geo", "TIME_PERIOD", "OBS_VALUE"}, "Czech Republic", 2000, 2)>>]}

\* column names: every candidate of every role, and names no list holds
Names ==
    Range(CountryCandidates) \cup Range(YearCandidates) \cup Range(ValueCandidates)
        \cup {"Country Code", "country name"}

\* a table of one row over every set of at most MaxCols column names (the
\* table without columns has no row)
HeaderTables ==
    {[cols |-> C,
      rows |-> IF C = {} THEN <<>> ELSE <<Row(C, "Brazil", 1, 2)>>] :
        C \in {D \in SUBSET Names : Cardinality(D) <= MaxCols}}

InputTables == RowTables \cup ScenarioTables \cup HeaderTables

\* the arguments the callers pass (main() passes start_year=2000)
YearArgs == {Absent, Given(0), Given(2000)}
\* (10 is the default of find_top_countries)
TopArgs == ((-1)..(MaxRows + 1)) \cup {10}

(***************************************************************************)
(* The state machine.                                                      *)
(***************************************************************************)
Call(op, input, start_year, end_year, n) ==
    [op |-> op, input |-> input, start_year |-> start_year,
     end_year |-> end_year, n |-> n]

Returned(kind, df, name) == [kind |-> kind, df |-> df, name |-> name]

\* DataProcessor.__init__: self.data is a copy of the caller's frame
DataProcessor__init__(T) == [data |-> T, shared |-> FALSE]

\* DataAnalyzer.__init__: self.data is the very frame it is given
DataAnalyzer__init__(T) == [data |-> T, shared |-> TRUE]

\* an operation of the processor: self.data is rebound to r.data; the frame
\* it held takes the contents r.self, and so does the caller's frame while
\* the two are one object
ProcessorStep(r) ==
    /\ data' = r.data
    /\ raw' = IF shared THEN r.self ELSE raw
    /\ shared' = (shared /\ ~r.fresh)

\* an operation of DataAnalyzer(processor.data): the analyzer holds the
\* processor's frame, which takes the contents r.self
AnalyzerStep(r) ==
    /\ data' = IF DataAnalyzer__init__(data).shared THEN r.self ELSE data
    /\ raw' = IF shared /\ DataAnalyzer__init__(data).shared THEN r.self ELSE raw
    /\ shared' = shared

\* processor = DataProcessor(raw_data)
Init ==
    /\ raw \in InputTables
    /\ data = DataProcessor__init__(raw).data
    /\ shared = DataProcessor__init__(raw).shared
    /\ last = Call("__init__", raw, Absent, Absent, 0)
    /\ out = Returned("None", NoneDF, None)
    /\ diag = <<>>

CleanData ==
    LET r == clean_data(data)
    IN  /\ ProcessorStep(r)
        /\ out' = Returned("DataFrame", r.ret, None)
        /\ diag' = r.diag
        /\ last' = Call("clean_data", data, Absent, Absent, 0)

FilterByYear ==
    \E start_year \in YearArgs, end_year \in YearArgs :
        LET r == filter_by_year(data, start_year, end_year)
        IN  /\ ProcessorStep(r)
            /\ out' = Returned("DataFrame", r.ret, None)
            /\ diag' = r.diag
            /\ last' = Call("filter_by_year", data, start_year, end_year, 0)

FilterEuropeanCountries ==
    LET r == filter_european_countries(data)
    IN  /\ ProcessorStep(r)
        /\ out' = Returned("DataFrame", r.ret, None)
        /\ diag' = r.diag
        /\ last' = Call("filter_european_countries", data, Absent, Absent, 0)

\* main(): the filter on 'Country Name' between filter_by_year and the
\* construction of the analyzer
MainFilterCountryName ==
    LET r == main_filter_country_name(data)
    IN  /\ ProcessorStep(r)
        /\ out' = Returned("None", NoneDF, None)
        /\ diag' = r.diag
        /\ last' = Call("main_filter_country_name", data, Absent, Absent, 0)

AggregateByCountry ==
    LET r == aggregate_by_country(data)
    IN  /\ ProcessorStep(r)
        /\ out' = Returned("DataFrame", r.ret, None)
        /\ diag' = r.diag
        /\ last' = Call("aggregate_by_country", data, Absent, Absent, 0)

\* DataAnalyzer(processor.data).calculate_statistics()
CalculateStatistics ==
    LET r == calculate_statistics(data)
    IN  /\ AnalyzerStep(r)
        /\ out' = Returned("dict", r.ret, None)
        /\ diag' = r.diag
        /\ last' = Call("calculate_statistics", data, Absent, Absent, 0)

\* DataAnalyzer(processor.data).find_top_countries(n)
FindTopCountries ==
    \E n \in TopArgs :
        LET r == find_top_countries(data, n)
        IN  /\ AnalyzerStep(r)
            /\ out' = Returned(r.kind, r.ret, None)
            /\ diag' = r.diag
            /\ last' = Call("find_top_countries", data, Absent, Absent, n)

\* DataAnalyzer(processor.data).calculate_growth_rate()
CalculateGrowthRate ==
    LET r == calculate_growth_rate(data)
    IN  /\ AnalyzerStep(r)
        /\ out' = Returned("DataFrame", r.ret, None)
        /\ diag' = r.diag
        /\ last' = Call("calculate_growth_rate", data, Absent, Absent, 0)

\* the lookups change no frame
GetCountryColumn ==
    /\ out' = Returned("column", NoneDF, _get_country_column(data))
    /\ diag' = <<>>
    /\ last' = Call("_get_country_column", data, Absent, Absent, 0)
    /\ UNCHANGED <<raw, data, shared>>

GetValueColumn ==
    /\ out' = Returned("column", NoneDF, _get_value_column(data))
    /\ diag' = <<>>
    /\ last' = Call("_get_value_column", data, Absent, Absent, 0)
    /\ UNCHANGED <<raw, data, shared>>

\* the year-column lookup, as filter_by_year and calculate_growth_rate run it
GetYearColumn ==
    /\ out' = Returned("column", NoneDF, year_col(data))
    /\ diag' = <<>>
    /\ last' = Call("year_col", data, Absent, Absent, 0)
    /\ UNCHANGED <<raw, data, shared>>

Next ==
    \/ CleanData
    \/ FilterByYear
    \/ FilterEuropeanCountries
    \/ MainFilterCountryName
    \/ AggregateByCountry
    \/ CalculateStatistics
    \/ FindTopCountries
    \/ CalculateGrowthRate
    \/ GetCountryColumn
    \/ GetValueColumn
    \/ GetYearColumn

Spec == Init /\ [][Next]_vars

(***************************************************************************)
(* The claims.                                                             *)
(***************************************************************************)
\* the priority lists as the specification states them
EntityKeyList == <<"geo", "country", "Country", "GEO", "Country Name">>
TimeKeyList == <<"TIME_PERIOD", "time", "year", "Year">>
ValueKeyList == <<"OBS_VALUE", "value", "population", "Population", "Value">>

\* name is the first entry of list that is a column, or None when none is
IsFirstCandidate(name, list, columns) ==
    /\ (name = None) <=> (\A i \in 1..Len(list) : list[i] \notin columns)
    /\ name # None =>
          /\ name \in columns
          /\ \E i \in 1..Len(list) :
                /\ list[i] = name
                /\ \A j \in 1..(i - 1) : list[j] \notin columns

\* C1: every column lookup returns the first name of its role's priority
\* list that is a column of the table, and None exactly when no candidate
\* is a column; it never returns a name the table does not have.
C1_ResolveFirstCandidate ==
    /\ last.op = "_get_country_column" =>
          IsFirstCandidate(out.name, EntityKeyList, last.input.cols)
    /\ last.op = "year_col" =>
          IsFirstCandidate(out.name, TimeKeyList, last.input.cols)
    /\ last.op = "_get_value_column" =>
          IsFirstCandidate(out.name, ValueKeyList, last.input.cols)

\* a lookup decided by priority: two candidates are columns, a name of no
\* list too, and the earlier candidate of the list is returned
C1_Witness ==
    /\ last.op = "_get_country_column"
    /\ last.input.cols = {"Country Name", "Country Code", "GEO"}
    /\ out.name = "GEO"

\* the rows of s whose time value lies within the bounds that are given
WithinBounds(s, yc, lo, hi) ==
    SelectSeq(s, LAMBDA r : /\ lo # Absent => lo[1] <= r[yc]
                            /\ hi # Absent => r[yc] <= hi[1])

\* C2: filter_by_year keeps exactly the rows whose year lies within the
\* bounds given, both inclusive, a bound of 0 being a bound like any other.
C2_InclusiveBoundsIncludingZero ==
    (last.op = "filter_by_year" /\ year_col(last.input) # None) =>
        data.rows = WithinBounds(last.input.rows, year_col(last.input),
                                 last.start_year, last.end_year)

\* C3: filter_european_countries keeps exactly the rows whose entity, in the
\* column _get_country_column resolves, is in the allow-list, and leaves the
\* table alone only when that column is unresolved.
C3_EntityFilterUsesResolver ==
    last.op = "filter_european_countries" =>
        LET cc == _get_country_column(last.input)
        IN  IF cc = None THEN data = last.input
            ELSE data.rows =
                     SelectSeq(last.input.rows,
                               LAMBDA r : r[cc] \in european_countries)

\* C4: the two filters commute.  After either filter has run on a working
\* table, running the other one next leaves the table that the opposite
\* order leaves, for every pair of year bounds.
C4_FiltersCommute ==
    /\ last.op = "filter_by_year" =>
          filter_european_countries(data).data =
              filter_by_year(filter_european_countries(last.input).data,
                             last.start_year, last.end_year).data
    /\ last.op = "filter_european_countries" =>
          \A s \in YearArgs, e \in YearArgs :
              filter_by_year(data, s, e).data =
                  filter_european_countries(
                      filter_by_year(last.input, s, e).data).data

\* the year filter has removed a row and the entity filter, run next,
\* removes a row of what is left
C4_Witness ==
    /\ last.op = "filter_by_year"
    /\ Len(data.rows) < Len(last.input.rows)
    /\ Len(filter_european_countries(data).data.rows) < Len(data.rows)

\* the sum of column col over the rows of s at the indices I
RECURSIVE IdxSum(_, _, _)
IdxSum(s, I, col) ==
    IF I = {} THEN 0
    ELSE LET i == CHOOSE i \in I : TRUE
         IN  s[i][col] + IdxSum(s, I \ {i}, col)

\* C5: with the entity and the value column resolved, aggregate_by_country
\* returns one record per distinct entity of the input, and each record
\* holds the sum, the least, the greatest and the mean of the values of
\* that entity's rows, so that sum = (rows of the group) * mean.
C5_AggregatePerEntity ==
    (/\ last.op = "aggregate_by_country"
     /\ _get_country_column(last.input) # None
     /\ _get_value_column(last.input) # None) =>
        LET T == last.input.rows
            cc == _get_country_column(last.input)
            vc == _get_value_column(last.input)
            recs == out.df.rows
            ents == {T[i][cc] : i \in 1..Len(T)}
        IN  /\ Len(recs) = Cardinality(ents)
            /\ {recs[k].Country : k \in 1..Len(recs)} = ents
            /\ \A k \in 1..Len(recs) :
                  LET I == {i \in 1..Len(T) : T[i][cc] = recs[k].Country}
                      count == Cardinality(I)
                      total == IdxSum(T, I, vc)
                  IN  /\ recs[k].Total = total
                      /\ \E i \in I : T[i][vc] = recs[k].Minimum
                      /\ \A i \in I : recs[k].Minimum <= T[i][vc]
                      /\ \E i \in I : T[i][vc] = recs[k].Maximum
                      /\ \A i \in I : recs[k].Maximum >= T[i][vc]
                      /\ recs[k].Average.kind = "num"
                      /\ recs[k].Average.den > 0
                      /\ recs[k].Total * recs[k].Average.den
                            = count * recs[k].Average.num

\* two entities aggregated, one of them over two rows of different values
\* whose mean is no integer
C5_Witness ==
    /\ last.op = "aggregate_by_country"
    /\ Len(last.input.rows) = 3
    /\ Len(out.df.rows) = 2
    /\ \E k \in 1..2 :
          /\ out.df.rows[k].Minimum < out.df.rows[k].Maximum
          /\ out.df.rows[k].Average.den = 2
          /\ out.df.rows[k].Average.num * 1 # out.df.rows[k].Minimum * 2

\* the injective maps from 1..m into 1..n
Injections(m, n) ==
    {f \in [1..m -> 1..n] : \A a, b \in 1..m : a # b => f[a] # f[b]}

\* C6, as stated: with the entity and the value column resolved and n
\* positive, find_top_countries returns min(n, distinct rows of the table)
\* rows, in descending order of value.
C6_TopNOfDistinctRows ==
    (/\ last.op = "find_top_countries"
     /\ last.n > 0
     /\ _get_country_column(last.input) # None
     /\ _get_value_column(last.input) # None) =>
        LET T == last.input.rows
            vc == _get_value_column(last.input)
            top == out.df.rows
        IN  /\ out.kind = "DataFrame"
            /\ Len(top) = Min(last.n, Cardinality(Range(T)))
            /\ \A i, j \in 1..Len(top) : i < j => top[i][vc] >= top[j][vc]

\* C6, amended: with the entity and the value column resolved and n positive,
\* find_top_countries returns min(n, rows of the table) rows, a repeated row
\* counted as often as it occurs (all of them when n exceeds them), each the (entity, value) pair of a row of its own
\* of the table, in descending order of value, and no row left out has a
\* greater value than a row returned.
C6_TopNDescending ==
    (/\ last.op = "find_top_countries"
     /\ last.n > 0
     /\ _get_country_column(last.input) # None
     /\ _get_value_column(last.input) # None) =>
        LET T == last.input.rows
            cc == _get_country_column(last.input)
            vc == _get_value_column(last.input)
            top == out.df.rows
        IN  /\ out.kind = "DataFrame"
            /\ out.df.cols = {cc, vc}
            /\ Len(top) = Min(last.n, Len(T))
            /\ \A i, j \in 1..Len(top) : i < j => top[i][vc] >= top[j][vc]
            /\ \E f \in Injections(Len(top), Len(T)) :
                  /\ \A k \in 1..Len(top) :
                        /\ top[k][cc] = T[f[k]][cc]
                        /\ top[k][vc] = T[f[k]][vc]
                  /\ \A j \in (1..Len(T)) \ Range(f) :
                        \A k \in 1..Len(top) : top[k][vc] >= T[j][vc]

\* the default n = 10 on a table of three entities, one row each, not in
\* descending order: three rows are returned, reordered
C6_Witness ==
    /\ last.op = "find_top_countries"
    /\ last.n = 10
    /\ Len(last.input.rows) = 3
    /\ Cardinality({r[_get_country_column(last.input)] :
                        r \in Range(last.input.rows)}) = 3
    /\ out.kind = "DataFrame"
    /\ Len(out.df.rows) = 3
    /\ out.df.rows[1][_get_value_column(last.input)]
          > out.df.rows[3][_get_value_column(last.input)]
    /\ last.input.rows[1][_get_value_column(last.input)]
          < last.input.rows[2][_get_value_column(last.input)]

\* a request for fewer rows than the table has: the greatest are returned
C6_WitnessCut ==
    /\ last.op = "find_top_countries"
    /\ last.n = 1
    /\ Len(last.input.rows) = 2
    /\ out.kind = "DataFrame"
    /\ Len(out.df.rows) = 1
    /\ out.df.rows[1][_get_value_column(last.input)]
          > last.input.rows[1][_get_value_column(last.input)]

\* how often row r, read on the columns C, occurs in s
Occurrences(s, C, r) ==
    Cardinality({i \in 1..Len(s) : [c \in C |-> s[i][c]] = r})

\* the growth rate is the finite number (v - p) / p * 100
IsGrowthOf(g, v, p) ==
    /\ g.kind = "num"
    /\ g.den > 0
    /\ g.num * p = (v - p) * 100 * g.den

\* C7: with the entity, time and value columns resolved,
\* calculate_growth_rate returns the rows of the table sorted by (entity,
\* time) ascending with one more column, growth_rate: null on the first row
\* of every entity and, on a later row, (value - previous value of the
\* same entity) / previous value * 100 (the previous value not being 0,
\* the case of C8).
C7_GrowthWithinEntity ==
    (/\ last.op = "calculate_growth_rate"
     /\ _get_country_column(last.input) # None
     /\ _get_value_column(last.input) # None
     /\ year_col(last.input) # None) =>
        LET T == last.input
            cc == _get_country_column(T)
            vc == _get_value_column(T)
            yc == year_col(T)
            g == out.df.rows
        IN  /\ out.df.cols = T.cols \cup {"growth_rate"}
            /\ Len(g) = Len(T.rows)
            /\ \A i \in 1..Len(T.rows) :
                  Occurrences(g, T.cols, T.rows[i])
                      = Occurrences(T.rows, T.cols, T.rows[i])
            /\ \A i \in 1..(Len(g) - 1) :
                  \/ StrLess(g[i][cc], g[i + 1][cc])
                  \/ g[i][cc] = g[i + 1][cc] /\ g[i][yc] <= g[i + 1][yc]
            /\ \A i \in 1..Len(g) :
                  IF i = 1 \/ g[i - 1][cc] # g[i][cc]
                  THEN g[i].growth_rate = NaN
                  ELSE g[i - 1][vc] # 0 =>
                           IsGrowthOf(g[i].growth_rate, g[i][vc], g[i - 1][vc])

\* the entity with the values 100, 150, 75, given out of time order around
\* a row of another entity: its growth rates are null, 50, -50, and the
\* other entity's row, which follows a row of the first, gets null
C7_Witness ==
    /\ last.op = "calculate_growth_rate"
    /\ Len(out.df.rows) = 4
    /\ last.input.rows[1].population = 75
    /\ [i \in 1..4 |-> out.df.rows[i].population] = <<100, 150, 75, 7>>
    /\ [i \in 1..4 |-> out.df.rows[i].growth_rate]
          = <<NaN, Frac(50, 1), Frac(-50, 1), NaN>>

\* C8: a growth rate whose previous value (of the same entity) is 0 is the
\* undefined marker of an entity's first row, whatever the current value;
\* the row is kept and the result is no number and no infinity.
C8_ZeroDenominatorIsUndefined ==
    (/\ last.op = "calculate_growth_rate"
     /\ _get_country_column(last.input) # None
     /\ _get_value_column(last.input) # None
     /\ year_col(last.input) # None) =>
        LET cc == _get_country_column(last.input)
            vc == _get_value_column(last.input)
            g == out.df.rows
        IN  /\ out.kind = "DataFrame"
            /\ Len(g) = Len(last.input.rows)
            /\ \A i \in 2..Len(g) :
                  (g[i - 1][cc] = g[i][cc] /\ g[i - 1][vc] = 0) =>
                      g[i].growth_rate = NaN

\* C9: a stage that finds a column it needs unresolved returns its degraded
\* result (the table unchanged; None for find_top_countries) and prints a
\* notice; filter_by_year without a year column prints exactly one.
C9_DegradedStagesNotify ==
    LET T == last.input
        no_cc == _get_country_column(T) = None
        no_vc == _get_value_column(T) = None
        no_yc == year_col(T) = None
    IN  /\ (last.op = "filter_by_year" /\ no_yc) =>
               data = T /\ out.df = T /\ Len(diag) = 1
        /\ (last.op = "filter_european_countries" /\ no_cc) =>
               data = T /\ out.df = T /\ Len(diag) >= 1
        /\ (last.op = "aggregate_by_country" /\ (no_cc \/ no_vc)) =>
               out.df = T /\ Len(diag) >= 1
        /\ (last.op = "find_top_countries" /\ (no_cc \/ no_vc)) =>
               out.kind = "None" /\ Len(diag) >= 1
        /\ (last.op = "calculate_growth_rate" /\ (no_cc \/ no_vc \/ no_yc)) =>
               out.df = T /\ Len(diag) >= 1

\* C10: find_top_countries called with n <= 0 signals InvalidArgument and
\* returns no result, empty or not (stated on the tables with rows whose
\* entity and value columns resolve, where no degraded mode is involved).
C10_NonPositiveNRaises ==
    (/\ last.op = "find_top_countries"
     /\ last.n <= 0
     /\ _get_country_column(last.input) # None
     /\ _get_value_column(last.input) # None
     /\ last.input.rows # <<>>) =>
        out.kind = "InvalidArgument"

\* the read-only views
ViewOps ==
    {"calculate_statistics", "find_top_countries", "calculate_growth_rate",
     "aggregate_by_country"}

\* C11: no operation changes the table the caller handed to the processor,
\* and a read-only view leaves the table it is called on unchanged in its
\* rows, their order and its columns; the growth_rate column is a column of
\* the table calculate_growth_rate returns only.
C11_ViewsLeaveInputUnchanged ==
    [][/\ raw' = raw
       /\ last'.op \in ViewOps => data' = data
       /\ last'.op = "calculate_growth_rate" =>
             /\ "growth_rate" \notin data'.cols
             /\ (/\ _get_country_column(data) # None
                 /\ _get_value_column(data) # None
                 /\ year_col(data) # None) => "growth_rate" \in out'.df.cols]_vars

\* growth rates computed on a filtered table: the returned table carries
\* the new column and its rows in another order, the table it was computed
\* from is as it was and the caller's table still has the rows filtered out
C11_Witness ==
    /\ last.op = "calculate_growth_rate"
    /\ "growth_rate" \in out.df.cols
    /\ data = last.input
    /\ "growth_rate" \notin data.cols
    /\ Len(data.rows) >= 2
    /\ Len(out.df.rows) = Len(data.rows)
    /\ \E i \in 1..Len(data.rows) :
          [c \in data.cols |-> out.df.rows[i][c]] # data.rows[i]
    /\ Len(data.rows) < Len(raw.rows)
    /\ ~shared

====
